---- MODULE Spec2Model ----
(***************************************************************************)
(* RTDEInterpolationController                                             *)
(* (src/diffusion_policy/real_world/rtde_interpolation_controller.py):     *)
(* the controller handle held by the orchestrating process, the control    *)
(* process run(), and the two shared-memory primitives between them (the   *)
(* input command queue and the state ring buffer); and main() of          *)
(* src/demo_real_robot.py, the teleoperation program that drives the       *)
(* controller.                                                             *)
(*                                                                         *)
(* Time is counted in milliseconds.  A 6-component pose is abstracted to a *)
(* record [val, len]: val names the pose, len is the length of the array.  *)
(***************************************************************************)
EXTENDS Integers, Sequences, FiniteSets, TLC

\* ------------------------------------------------------------ bounds
\* capacity of the input queue in the model (the code passes buffer_size=256)
buffer_size == 2
\* number of snapshots the ring buffer retains (the code's default get_max_k=128)
get_max_k == 2
\* successful puts are numbered 1..MaxPuts
MaxPuts == 3
\* the wall clock runs over 0..MaxTime
MaxTime == 1
\* pose values are 1..NPoses
NPoses == 2
\* the time the loop's own work may take in all, in milliseconds (less than 1/frequency)
MaxLate == 2
\* the distance between the positions of two neighbouring pose values, in millimetres
PoseStep == 100

\* ------------------------------------------------------------ program constants
STOP == 0
SERVOL == 1
SCHEDULE_WAYPOINT == 2
\* frequency=125 (Hz), the constructor's default
frequency == 125
\* assert pose.shape == (6,)
PoseDim == 6
\* 1/frequency, in milliseconds
Period == 1000 \div frequency
\* max_pos_speed=0.25 (m/s), in millimetres per second
max_pos_speed == 250

None == -1
\* a field of a queue entry the put did not write
Unwritten == -2
\* np.zeros((6,)): the content of a shared-memory field never written
ZeroPose == 0
Poses == 1..NPoses
\* what a field of a slot may hold from before the put that did not write it
StalePoses == Poses \cup {ZeroPose}
\* the poses a caller may pass: well-formed (6 components) or not
PoseArgs == [val : Poses, len : {PoseDim}] \cup {[val |-> 1, len |-> PoseDim - 1]}
\* the durations a caller may pass, around 1/frequency
Durations == {Period - 1, Period}
Times == 0..MaxTime
Exited == {"Stopped", "Failed"}

VARIABLES
    verbose,        \* self.verbose
    joints_init,    \* self.joints_init (None or a pose)
    now,            \* time.time()
    robot_angles,   \* the actuator's configuration (elephant_client)
    pc,             \* where the control process is in run()
    target_pose,    \* run()'s local target_pose
    iter_idx,       \* run()'s local iter_idx: 0 in the first loop, 1 for any later one
    keep_running,   \* run()'s local keep_running
    error,          \* the exception run() caught, "" if none
    ready_event,    \* self.ready_event
    input_queue,    \* self.input_queue: the pending entries, oldest first
    nPut,           \* number of puts that succeeded
    delivered,      \* ids of the entries get_all has returned, in order
    ring_buffer,    \* self.ring_buffer: [slots, counter]
    published,      \* the last get_max_k snapshots run() published, oldest first
    n_published,    \* how many snapshots run() published, counted up to get_max_k+1
    orch,           \* where the orchestrator is: idle or blocked in a call
    lastCall,       \* the last handle call and its outcome
    robot_cmd,      \* the last command the actuator transport was sent
    tick_steps,     \* what the current loop of run() has done so far, in order
    late,           \* time.monotonic() - (curr_t + n*dt) after n sleeps: the time
                    \* spent in the loop outside its sleeps
    main_pc,        \* where demo_real_robot.main() is
    main_stop       \* main()'s local stop

vars == <<verbose, joints_init, now, robot_angles, pc, target_pose, iter_idx,
          keep_running, error, ready_event, input_queue, nPut, delivered,
          ring_buffer, published, n_published, orch, lastCall,
          robot_cmd, tick_steps, late, main_pc, main_stop>>

procVars == <<pc, target_pose, iter_idx, keep_running, error>>
queueVars == <<input_queue, nPut, delivered>>
ringVars == <<ring_buffer, published, n_published>>
configVars == <<verbose, joints_init>>
loopVars == <<robot_cmd, tick_steps, late>>
demoVars == <<main_pc, main_stop>>

\* ------------------------------------------------------------ helpers
Min(a, b) == IF a < b THEN a ELSE b

\* the last n elements of s
LastN(s, n) == SubSeq(s, Len(s) - Min(n, Len(s)) + 1, Len(s))

\* self.is_alive(): started and not yet exited
is_alive == pc \notin ({"unstarted"} \cup Exited)

\* the outcome of a handle call: the error it raised ("" if none, "blocked"
\* while the call has not returned) and the snapshots it returned
Result(err, val) == [err |-> err, val |-> val]

\* ------------------------------------------------------------ State Ring Buffer
\* a snapshot: the receive_keys' arrays and robot_receive_timestamp; pub tells a
\* snapshot run() put from the example record that sized the buffer
Snapshot(angles, t, isPub) ==
    [ActualTCPPose |-> angles, robot_receive_timestamp |-> t, pub |-> isPub]

\* SharedMemoryRingBuffer.create_from_examples(examples=example, get_max_k=...)
RingCreate(example) ==
    [slots |-> [i \in 0..(get_max_k - 1) |-> example], counter |-> 0]

\* the counter is kept below 2*get_max_k; counter % get_max_k and
\* Min(counter, get_max_k), the only things read of it, are those of the true count
RingPut(rb, snap) ==
    [slots |-> [rb.slots EXCEPT ![rb.counter % get_max_k] = snap],
     counter |-> IF rb.counter + 1 = 2 * get_max_k THEN get_max_k ELSE rb.counter + 1]

\* the k most recent snapshots, oldest first; fewer if fewer were published
RingGetLastK(rb, k) ==
    LET n == Min(k, Min(rb.counter, get_max_k))
    IN  [i \in 1..n |-> rb.slots[(rb.counter - n + i - 1) % get_max_k]]

RingGetAll(rb) == RingGetLastK(rb, get_max_k)

\* ------------------------------------------------------------ Command Queue
\* an entry: the keys of the example record; id numbers the successful puts
Entry(cmd, pose, duration, target_time, id) ==
    [cmd |-> cmd, target_pose |-> pose, duration |-> duration,
     target_time |-> target_time, id |-> id]

QueueFull(q) == Len(q) >= buffer_size

\* SharedMemoryQueue.put on a queue that is not full
QueuePut(q, e) == Append(q, e)

\* SharedMemoryQueue.get_all: everything pending, oldest first
QueueGetAll(q) == q

Ids(q) == [i \in 1..Len(q) |-> q[i].id]

\* ------------------------------------------------------------ initial state
\* __init__: the queue is empty, the ring buffer holds the example record in
\* every slot (built from the actuator's configuration and the time at
\* construction), the process is not started
Init ==
    /\ verbose \in BOOLEAN
    /\ joints_init \in {None, 1}
    /\ now = 0
    /\ robot_angles = 1
    /\ pc = "unstarted"
    /\ target_pose = ZeroPose
    /\ iter_idx = 0
    /\ keep_running = TRUE
    /\ error = ""
    /\ ready_event = FALSE
    /\ input_queue = <<>>
    /\ nPut = 0
    /\ delivered = <<>>
    /\ ring_buffer = RingCreate(Snapshot(robot_angles, now, FALSE))
    /\ published = <<>>
    /\ n_published = 0
    /\ orch = "idle"
    /\ lastCall = Result("", <<>>)
    /\ robot_cmd = "none"
    /\ tick_steps = <<>>
    /\ late = 0
    /\ main_pc = "with"
    /\ main_stop = FALSE

\* wall-clock time passes
Tick ==
    /\ now < MaxTime
    /\ now' = now + 1
    /\ UNCHANGED <<configVars, robot_angles, procVars, ready_event, queueVars,
                   ringVars, orch, lastCall, loopVars, demoVars>>

\* ------------------------------------------------------------ control process: run()
\* an exception raised inside the outer try: except prints it, finally follows
Raise(e) ==
    /\ pc' = "finally"
    /\ error' = e

\* run() up to the loop: the verbose message (robot_ip is not a name in run()),
\* the optional initial-configuration move, the first read of the actuator
Launch ==
    /\ pc = "launch"
    /\ IF verbose
       THEN /\ Raise("NameError")
            /\ UNCHANGED <<robot_angles, target_pose, robot_cmd>>
       ELSE \E outcome \in {"ok", "raise"}, moved \in BOOLEAN :
              LET at == IF joints_init # None /\ moved THEN joints_init ELSE robot_angles
              IN  /\ robot_angles' = at
                  /\ robot_cmd' = IF joints_init # None /\ moved THEN "move" ELSE robot_cmd
                  /\ IF outcome = "ok"
                     THEN /\ moved = (joints_init # None)
                          /\ target_pose' = at
                          /\ pc' = "drain"
                          /\ error' = error
                     ELSE /\ Raise("TransportError")
                          /\ target_pose' = target_pose
    /\ iter_idx' = 0
    /\ keep_running' = TRUE
    /\ UNCHANGED <<configVars, now, ready_event, queueVars, ringVars, orch, lastCall,
                   tick_steps, late, demoVars>>

\* the pose run() takes from a drained batch: command['target_pose'][0]
BatchTargets(batch) ==
    IF batch[1].target_pose = Unwritten THEN StalePoses ELSE {batch[1].target_pose}

\* Drain with the debugging get_all of the line before it left in: that call
\* takes the batch, and the get_all whose result run() uses finds nothing
Drain_debug_get_all ==
    /\ pc = "drain"
    /\ input_queue' = <<>>
    /\ UNCHANGED <<target_pose, nPut, delivered>>
    /\ pc' = "dispatch"
    /\ tick_steps' = <<"drain">>
    /\ UNCHANGED <<configVars, now, robot_angles, iter_idx, keep_running, error,
                   ready_event, ringVars, orch, lastCall, robot_cmd, late, demoVars>>

\* Drain with the target reset to zeros when nothing is pending
Drain_zero_on_empty ==
    /\ pc = "drain"
    /\ LET commands == QueueGetAll(input_queue)
       IN  IF commands = <<>>
           THEN /\ target_pose' = ZeroPose
                /\ UNCHANGED queueVars
           ELSE /\ input_queue' = <<>>
                /\ delivered' = delivered \o Ids(commands)
                /\ nPut' = nPut
                /\ target_pose' \in BatchTargets(commands)
    /\ pc' = "dispatch"
    /\ tick_steps' = <<"drain">>
    /\ UNCHANGED <<configVars, now, robot_angles, iter_idx, keep_running, error,
                   ready_event, ringVars, orch, lastCall, robot_cmd, late, demoVars>>

\* Drain with the target taken from the last entry of the batch ([-1] for [0])
Drain_last_entry ==
    /\ pc = "drain"
    /\ LET commands == QueueGetAll(input_queue)
       IN  IF commands = <<>>
           THEN UNCHANGED <<target_pose, queueVars>>
           ELSE /\ input_queue' = <<>>
                /\ delivered' = delivered \o Ids(commands)
                /\ nPut' = nPut
                /\ target_pose' \in BatchTargets(<<commands[Len(commands)]>>)
    /\ pc' = "dispatch"
    /\ tick_steps' = <<"drain">>
    /\ UNCHANGED <<configVars, now, robot_angles, iter_idx, keep_running, error,
                   ready_event, ringVars, orch, lastCall, robot_cmd, late, demoVars>>

\* the inner try: get_all, then target_pose of the first entry; an empty queue
\* (or any exception) leaves target_pose as it was
Drain ==
    /\ pc = "drain"
    /\ LET commands == QueueGetAll(input_queue)
       IN  IF commands = <<>>
           THEN UNCHANGED <<target_pose, queueVars>>
           ELSE /\ input_queue' = <<>>
                /\ delivered' = delivered \o Ids(commands)
                /\ nPut' = nPut
                /\ target_pose' \in BatchTargets(commands)
    /\ pc' = "dispatch"
    /\ tick_steps' = <<"drain">>
    /\ UNCHANGED <<configVars, now, robot_angles, iter_idx, keep_running, error,
                   ready_event, ringVars, orch, lastCall, robot_cmd, late, demoVars>>

\* write_angles(target_pose, 1000); time.sleep(1/125)
Dispatch ==
    /\ pc = "dispatch"
    /\ \E outcome \in {"ok", "raise"} :
         IF outcome = "ok"
         THEN /\ robot_angles' = target_pose
              /\ robot_cmd' = "move"
              /\ tick_steps' = tick_steps \o <<"dispatch", "wait">>
              /\ pc' = "read"
              /\ error' = error
         ELSE /\ Raise("TransportError")
              /\ UNCHANGED <<robot_angles, robot_cmd, tick_steps>>
    /\ UNCHANGED <<configVars, now, target_pose, iter_idx, keep_running, ready_event,
                   queueVars, ringVars, orch, lastCall, late, demoVars>>

\* Publish with the put moved under the first-loop test
Publish_first_loop_only(snap) ==
    /\ ring_buffer' = IF iter_idx = 0 THEN RingPut(ring_buffer, snap) ELSE ring_buffer
    /\ published' = LastN(Append(published, snap), get_max_k)
    /\ n_published' = Min(n_published + 1, get_max_k + 1)

\* self.ring_buffer.put(state)
Publish(snap) ==
    /\ ring_buffer' = RingPut(ring_buffer, snap)
    /\ published' = LastN(Append(published, snap), get_max_k)
    /\ n_published' = Min(n_published + 1, get_max_k + 1)

\* state[key] = get_angles(); robot_receive_timestamp = time.time(); publish
ReadPublish ==
    /\ pc = "read"
    /\ \E outcome \in {"ok", "raise"} :
         IF outcome = "ok"
         THEN /\ Publish(Snapshot(robot_angles, now, TRUE))
              /\ tick_steps' = tick_steps \o <<"read", "publish">>
              /\ pc' = "ready"
              /\ error' = error
         ELSE /\ Raise("TransportError")
              /\ UNCHANGED <<ringVars, tick_steps>>
    /\ UNCHANGED <<configVars, now, robot_angles, target_pose, iter_idx, keep_running,
                   ready_event, queueVars, orch, lastCall, robot_cmd, late, demoVars>>

\* FirstLoopReady with an else branch that clears the event
FirstLoopReady_clear_later ==
    /\ pc = "ready"
    /\ ready_event' = (iter_idx = 0)
    /\ iter_idx' = IF iter_idx = 0 THEN 1 ELSE iter_idx
    /\ pc' = IF keep_running THEN "drain" ELSE "finally"
    /\ UNCHANGED <<configVars, now, robot_angles, target_pose, keep_running, error,
                   queueVars, ringVars, orch, lastCall, loopVars, demoVars>>

\* if iter_idx == 0: ready_event.set(); iter_idx += 1; then the loop test
FirstLoopReady ==
    /\ pc = "ready"
    /\ ready_event' = (ready_event \/ iter_idx = 0)
    /\ iter_idx' = IF iter_idx = 0 THEN 1 ELSE iter_idx
    /\ pc' = IF keep_running THEN "drain" ELSE "finally"
    /\ UNCHANGED <<configVars, now, robot_angles, target_pose, keep_running, error,
                   queueVars, ringVars, orch, lastCall, loopVars, demoVars>>

\* Finally without the ready_event.set()
Finally_no_set ==
    /\ pc = "finally"
    /\ ready_event' = ready_event
    /\ error' = IF verbose THEN "NameError" ELSE error
    /\ pc' = "exit"
    /\ UNCHANGED <<configVars, now, robot_angles, target_pose, iter_idx, keep_running,
                   queueVars, ringVars, orch, lastCall, loopVars, demoVars>>

\* finally: ready_event.set(); the verbose message raises NameError again
Finally ==
    /\ pc = "finally"
    /\ ready_event' = TRUE
    /\ error' = IF verbose THEN "NameError" ELSE error
    /\ pc' = "exit"
    /\ UNCHANGED <<configVars, now, robot_angles, target_pose, iter_idx, keep_running,
                   queueVars, ringVars, orch, lastCall, loopVars, demoVars>>

\* run() is over and the process terminates: Stopped after a Stop, Failed after
\* an exception
Exit ==
    /\ pc = "exit"
    /\ pc' = IF error = "" THEN "Stopped" ELSE "Failed"
    /\ UNCHANGED <<configVars, now, robot_angles, target_pose, iter_idx, keep_running,
                   error, ready_event, queueVars, ringVars, orch, lastCall, loopVars,
                   demoVars>>

ControlProcess ==
    Launch \/ Drain \/ Dispatch \/ ReadPublish \/ FirstLoopReady \/ Finally \/ Exit

\* ------------------------------------------------------------ controller handle
\* what a method of the handle leaves alone in the control process
handleFrame == <<configVars, now, robot_angles, procVars, ready_event, ringVars, loopVars>>

\* the entry is appended and numbered
Enqueue(e) ==
    /\ nPut < MaxPuts
    /\ input_queue' = QueuePut(input_queue, [e EXCEPT !.id = nPut + 1])
    /\ nPut' = nPut + 1
    /\ delivered' = delivered

\* HandlePut writing over the oldest pending entry when the queue is full
HandlePut_overwrite(e) ==
    /\ nPut < MaxPuts
    /\ input_queue' = IF QueueFull(input_queue)
                      THEN Append(Tail(input_queue), [e EXCEPT !.id = nPut + 1])
                      ELSE Append(input_queue, [e EXCEPT !.id = nPut + 1])
    /\ nPut' = nPut + 1
    /\ delivered' = delivered
    /\ lastCall' = Result("", <<>>)

\* self.input_queue.put(message) as the last statement of a command method:
\* the queue's Full error, if any, is the call's error
HandlePut(e) ==
    IF QueueFull(input_queue)
    THEN /\ lastCall' = Result("Full", <<>>)
         /\ UNCHANGED queueVars
    ELSE /\ Enqueue(e)
         /\ lastCall' = Result("", <<>>)

\* start(wait): super().start(), then start_wait() if wait
start(wait) ==
    /\ orch = "idle"
    /\ pc = "unstarted"
    /\ pc' = "launch"
    /\ IF wait
       THEN /\ orch' = "start_wait"
            /\ lastCall' = Result("blocked", <<>>)
       ELSE /\ orch' = orch
            /\ lastCall' = Result("", <<>>)
    /\ UNCHANGED <<configVars, now, robot_angles, target_pose, iter_idx, keep_running,
                   error, ready_event, queueVars, ringVars, loopVars>>

\* start_wait(): ready_event.wait(launch_timeout) is over, because the event is
\* set or because the timeout elapsed (its result is not looked at); then
\* assert self.is_alive()
start_wait ==
    /\ orch = "start_wait"
    /\ \E timed_out \in BOOLEAN : timed_out \/ ready_event
    /\ orch' = "idle"
    /\ lastCall' = Result(IF is_alive THEN "" ELSE "AssertionError", <<>>)
    /\ UNCHANGED <<handleFrame, queueVars>>

\* stop(wait): put the Stop message (only the cmd key), then stop_wait() if wait
stop(wait) ==
    /\ orch = "idle"
    /\ IF QueueFull(input_queue)
       THEN /\ lastCall' = Result("Full", <<>>)
            /\ UNCHANGED <<queueVars, orch>>
       ELSE /\ Enqueue(Entry(STOP, Unwritten, Unwritten, Unwritten, 0))
            /\ IF ~wait
               THEN /\ lastCall' = Result("", <<>>)
                    /\ orch' = orch
               ELSE IF pc = "unstarted"
               THEN /\ lastCall' = Result("AssertionError", <<>>)
                    /\ orch' = orch
               ELSE /\ lastCall' = Result("blocked", <<>>)
                    /\ orch' = "stop_wait"
    /\ UNCHANGED handleFrame

\* stop_wait(): self.join() returns once the process has exited
stop_wait ==
    /\ orch = "stop_wait"
    /\ pc \in Exited
    /\ orch' = "idle"
    /\ lastCall' = Result("", <<>>)
    /\ UNCHANGED <<handleFrame, queueVars>>

\* servoL raising a too short duration to 1/frequency instead of rejecting it
servoL_clamp(pose, duration) ==
    /\ IF ~is_alive \/ pose.len # PoseDim
       THEN /\ lastCall' = Result("AssertionError", <<>>)
            /\ UNCHANGED queueVars
       ELSE HandlePut(Entry(SERVOL, pose.val,
                            IF duration >= Period THEN duration ELSE Period,
                            Unwritten, 0))
    /\ UNCHANGED <<handleFrame, orch>>

\* servoL(pose, duration): three asserts, then the put
servoL(pose, duration) ==
    /\ IF ~is_alive \/ ~(duration >= Period) \/ pose.len # PoseDim
       THEN /\ lastCall' = Result("AssertionError", <<>>)
            /\ UNCHANGED queueVars
       ELSE HandlePut(Entry(SERVOL, pose.val, duration, Unwritten, 0))
    /\ UNCHANGED <<handleFrame, orch>>

\* schedule_waypoint(pose, target_time): two asserts, then the put
schedule_waypoint(pose, target_time) ==
    /\ IF ~(target_time > now) \/ pose.len # PoseDim
       THEN /\ lastCall' = Result("AssertionError", <<>>)
            /\ UNCHANGED queueVars
       ELSE HandlePut(Entry(SCHEDULE_WAYPOINT, pose.val, Unwritten, target_time, 0))
    /\ UNCHANGED <<handleFrame, orch>>

\* ring_buffer.get(): the most recent snapshot, once one is published
RingHasData(rb) == rb.counter > 0

\* get_state reading the slot before the write position without waiting for a
\* first snapshot
get_state_no_wait(k) ==
    /\ orch = "idle"
    /\ lastCall' = Result("", IF k = None
                              THEN <<ring_buffer.slots[(ring_buffer.counter - 1) % get_max_k]>>
                              ELSE RingGetLastK(ring_buffer, k))
    /\ UNCHANGED <<handleFrame, queueVars, orch>>

\* get_state(k): ring_buffer.get() if k is None, else ring_buffer.get_last_k(k)
get_state(k) ==
    /\ orch = "idle"
    /\ IF k = None
       THEN IF RingHasData(ring_buffer)
            THEN /\ lastCall' = Result("", RingGetLastK(ring_buffer, 1))
                 /\ orch' = orch
            ELSE /\ lastCall' = Result("blocked", <<>>)
                 /\ orch' = "get_wait"
       ELSE /\ lastCall' = Result("", RingGetLastK(ring_buffer, k))
            /\ orch' = orch
    /\ UNCHANGED <<handleFrame, queueVars>>

\* ring_buffer.get() waiting for a first snapshot: it returns the most recent
\* one if there is one by now, and fails with Timeout when the time budget
\* (get_time_budget=0.2) is over with nothing published
get_state_wait ==
    /\ orch = "get_wait"
    /\ orch' = "idle"
    /\ IF RingHasData(ring_buffer)
       THEN lastCall' = Result("", RingGetLastK(ring_buffer, 1))
       ELSE lastCall' = Result("Timeout", <<>>)
    /\ UNCHANGED <<handleFrame, queueVars>>

\* get_all_state(): ring_buffer.get_all()
get_all_state ==
    /\ orch = "idle"
    /\ lastCall' = Result("", RingGetAll(ring_buffer))
    /\ UNCHANGED <<handleFrame, queueVars, orch>>

\* the handle's command methods, called with any arguments
Commands ==
    \/ \E pose \in PoseArgs, duration \in Durations : servoL(pose, duration)
    \/ \E pose \in PoseArgs, target_time \in Times : schedule_waypoint(pose, target_time)

\* the handle's lifecycle methods
Lifecycle ==
    \/ \E wait \in BOOLEAN : start(wait)
    \/ start_wait
    \/ \E wait \in BOOLEAN : stop(wait)
    \/ stop_wait

\* the handle's receive methods
Reads ==
    \/ \E k \in {None} \cup (1..get_max_k) : get_state(k)
    \/ get_state_wait
    \/ get_all_state

\* the time the loop spends outside its sleeps (in get_all, write_angles,
\* get_angles, put): one more millisecond has passed
Elapse ==
    /\ pc \in {"drain", "dispatch", "read", "ready"}
    /\ late < MaxLate
    /\ late' = late + 1
    /\ UNCHANGED <<configVars, now, robot_angles, procVars, ready_event, queueVars,
                   ringVars, orch, lastCall, robot_cmd, tick_steps, demoVars>>

\* ------------------------------------------------------------ demo_real_robot.main()
\* the with statement is entered: the controller's __enter__ is start()
main_enter ==
    /\ main_pc = "with"
    /\ start(TRUE)
    /\ main_pc' = "start_wait"
    /\ main_stop' = main_stop

\* start() returns; an AssertionError leaves main() through its except clause
main_start_wait ==
    /\ main_pc = "start_wait"
    /\ start_wait
    /\ main_pc' = IF lastCall'.err = "" THEN "get_robot_state" ELSE "done"
    /\ main_stop' = main_stop

\* state = env.get_robot_state(); stop = False
main_get_robot_state ==
    /\ main_pc = "get_robot_state"
    /\ get_state(None)
    /\ main_pc' = IF orch' = "get_wait" THEN "get_wait" ELSE "while"
    /\ main_stop' = FALSE

\* the same call returns after waiting; a Timeout leaves the with statement
main_get_wait ==
    /\ main_pc = "get_wait"
    /\ get_state_wait
    /\ main_pc' = IF lastCall'.err = "" THEN "while" ELSE "exit"
    /\ main_stop' = main_stop

\* while not stop:
main_while ==
    /\ main_pc = "while"
    /\ main_pc' = IF main_stop THEN "exit" ELSE "get_obs"
    /\ UNCHANGED <<main_stop, handleFrame, queueVars, orch, lastCall>>

\* obs = env.get_obs()
main_get_obs ==
    /\ main_pc = "get_obs"
    /\ get_all_state
    /\ main_pc' = "press_events"
    /\ main_stop' = main_stop

\* for key_stroke in press_events: a 'q' among them sets stop
main_press_events ==
    /\ main_pc = "press_events"
    /\ \E q \in BOOLEAN : main_stop' = (main_stop \/ q)
    /\ main_pc' = "exec_actions"
    /\ UNCHANGED <<handleFrame, queueVars, orch, lastCall>>

\* env.exec_actions(actions=[target_pose], timestamps=[...]): the action is sent
\* to the controller as a waypoint if its time is still ahead; one put is
\* left for the Stop of the exit
main_exec_actions ==
    /\ main_pc = "exec_actions"
    /\ \/ /\ now + 1 \in Times
          /\ nPut + 1 < MaxPuts
          /\ \E val \in Poses :
               schedule_waypoint([val |-> val, len |-> PoseDim], now + 1)
          /\ main_pc' = IF lastCall'.err = "" THEN "while" ELSE "exit"
       \/ /\ main_pc' = "while"
          /\ UNCHANGED <<handleFrame, queueVars, orch, lastCall>>
    /\ main_stop' = main_stop

\* the with statement is left: the controller's __exit__ is stop()
main_exit ==
    /\ main_pc = "exit"
    /\ stop(TRUE)
    /\ main_pc' = IF orch' = "stop_wait" THEN "join" ELSE "done"
    /\ main_stop' = main_stop

\* stop() returns and main() with it
main_join ==
    /\ main_pc = "join"
    /\ stop_wait
    /\ main_pc' = "done"
    /\ main_stop' = main_stop

main ==
    \/ main_enter
    \/ main_start_wait
    \/ main_get_robot_state
    \/ main_get_wait
    \/ main_while
    \/ main_get_obs
    \/ main_press_events
    \/ main_exec_actions
    \/ main_exit
    \/ main_join

\* a caller of the handle other than main()
Orchestrator(calls) == calls /\ UNCHANGED demoVars

\* another context issuing commands through the handle, also while the
\* orchestrator is blocked in a call
AuxProducer == Orchestrator(Commands)

\* ------------------------------------------------------------ specifications
\* the control process and an orchestrator that starts it, stops it and reads
\* its state
Next == Tick \/ ControlProcess \/ Orchestrator(Lifecycle) \/ Orchestrator(Reads)

Spec == Init /\ [][Next]_vars

\* the control process keeps being scheduled, and the two timed waits of the
\* handle (launch_timeout, get_time_budget) end
FairSpec ==
    /\ Spec
    /\ WF_vars(ControlProcess)
    /\ WF_vars(Orchestrator(start_wait))
    /\ WF_vars(Orchestrator(get_state_wait))

\* the control process and an orchestrator that starts it, stops it and sends
\* it commands
NextCommands ==
    Tick \/ ControlProcess \/ Orchestrator(Lifecycle) \/ Orchestrator(orch = "idle" /\ Commands)

CommandSpec == Init /\ [][NextCommands]_vars

\* the same with a second producer of commands
NextProducers == NextCommands \/ AuxProducer

ProducersSpec == Init /\ [][NextProducers]_vars

\* the same as CommandSpec with the time the loop's work takes
NextTiming == NextCommands \/ Elapse

TimingSpec == Init /\ [][NextTiming]_vars

\* the control process under demo_real_robot.main()
NextDemo == Tick \/ ControlProcess \/ main

DemoSpec == Init /\ [][NextDemo]_vars

\* the control process keeps being scheduled and main() keeps running
DemoFairSpec ==
    /\ DemoSpec
    /\ WF_vars(ControlProcess)
    /\ WF_vars(main)

\* ------------------------------------------------------------ claims
\* the control process is in its loop
Running == pc \in {"drain", "dispatch", "read", "ready"}

\* the pending Stop commands
PendingStops == {i \in 1..Len(input_queue) : input_queue[i].cmd = STOP}

\* C1: whenever a Stop command is pending while the control process is
\* Running, the control process eventually leaves its loop and exits (so that
\* the join of stop_wait returns).
C1_StopTerminates == (Running /\ PendingStops # {}) ~> (pc \in Exited)

\* C2: after stop was called twice in a row on a started controller (both Stop
\* commands enqueued without error), the control process eventually exits.
C2_IdempotentStop == (Running /\ Cardinality(PendingStops) >= 2) ~> (pc \in Exited)

\* C3: whenever start(wait=True) returns normally, the readiness event is set.
C3_LaunchTimeoutFatal ==
    [][(orch = "start_wait" /\ orch' = "idle" /\ lastCall'.err = "") => ready_event']_vars

\* the arguments servoL accepts
ValidServoArgs(pose, duration) ==
    duration >= Period /\ pose.len = PoseDim

\* the arguments schedule_waypoint accepts
ValidWaypointArgs(pose, target_time) ==
    target_time > now /\ pose.len = PoseDim

\* exactly one entry, e (numbered), is appended to the Command Queue
EnqueuesOne(e) == input_queue' = Append(input_queue, [e EXCEPT !.id = nPut + 1])

\* the call fails and the Command Queue is as before
Rejected == input_queue' = input_queue /\ lastCall'.err \in {"AssertionError", "Full"}

\* C4 as stated: a servoL or schedule_waypoint call with invalid arguments
\* fails and leaves the Command Queue unchanged, and every call with valid
\* arguments enqueues exactly one command of its kind with the arguments as given.
C4_RejectedBeforeEnqueue_Original ==
    [][/\ \A pose \in PoseArgs, duration \in Durations :
            servoL(pose, duration) =>
                IF ValidServoArgs(pose, duration)
                THEN EnqueuesOne(Entry(SERVOL, pose.val, duration, Unwritten, 0))
                ELSE Rejected
       /\ \A pose \in PoseArgs, target_time \in Times :
            schedule_waypoint(pose, target_time) =>
                IF ValidWaypointArgs(pose, target_time)
                THEN EnqueuesOne(Entry(SCHEDULE_WAYPOINT, pose.val, Unwritten, target_time, 0))
                ELSE Rejected]_vars

\* C4 (amended): a servoL or schedule_waypoint call with invalid arguments
\* fails and leaves the Command Queue unchanged; a call with valid arguments
\* enqueues exactly one command of its kind with the arguments as given when
\* the queue is not full (and, for servoL, the control process is alive), and
\* otherwise fails and leaves the queue unchanged.
C4_RejectedBeforeEnqueue ==
    [][/\ \A pose \in PoseArgs, duration \in Durations :
            servoL(pose, duration) =>
                IF ValidServoArgs(pose, duration) /\ is_alive /\ ~QueueFull(input_queue)
                THEN EnqueuesOne(Entry(SERVOL, pose.val, duration, Unwritten, 0))
                ELSE Rejected
       /\ \A pose \in PoseArgs, target_time \in Times :
            schedule_waypoint(pose, target_time) =>
                IF ValidWaypointArgs(pose, target_time) /\ ~QueueFull(input_queue)
                THEN EnqueuesOne(Entry(SCHEDULE_WAYPOINT, pose.val, Unwritten, target_time, 0))
                ELSE Rejected]_vars

\* a command method failed an assert on a live controller with a command
\* pending, and the pending command is still there
C4_Witness ==
    /\ Running
    /\ lastCall.err = "AssertionError"
    /\ Len(input_queue) = 1
    /\ nPut = 1 /\ delivered = <<>>

\* C5: once the control process has been started the readiness event is
\* eventually set, also when the process fails before its first tick is
\* complete; and a launcher blocked in start_wait eventually leaves it.
C5_NoLauncherHangs ==
    /\ (pc # "unstarted") ~> ready_event
    /\ (orch = "start_wait") ~> (orch = "idle")

\* the process failed before it published anything, and the event is set
C5_Witness == pc = "Failed" /\ n_published = 0 /\ iter_idx = 0 /\ ready_event

\* a get_state call returns
GetStateReturns ==
    /\ (\E k \in {None} \cup (1..get_max_k) : get_state(k)) \/ get_state_wait
    /\ orch' = "idle"

\* C6: a get_state call made after the control process ended in Failed
\* reports an error.
C6_FailureSurfaced ==
    [][(pc = "Failed" /\ GetStateReturns) => lastCall'.err # ""]_vars

\* a command method or stop is called with arguments that pass its asserts
PutCall ==
    \/ \E wait \in BOOLEAN : stop(wait)
    \/ \E pose \in PoseArgs, duration \in Durations :
         ValidServoArgs(pose, duration) /\ is_alive /\ servoL(pose, duration)
    \/ \E pose \in PoseArgs, target_time \in Times :
         ValidWaypointArgs(pose, target_time) /\ schedule_waypoint(pose, target_time)

\* C7: with buffer_size commands pending, the next put (through servoL,
\* schedule_waypoint or stop) fails with Full and the pending commands and
\* their order are unchanged; the queue never holds more than buffer_size, and
\* a put never changes a pending command.
C7_BoundedQueue ==
    [][/\ (Len(input_queue) = buffer_size /\ PutCall) =>
              (input_queue' = input_queue /\ lastCall'.err = "Full")
       /\ Len(input_queue') <= buffer_size
       /\ PutCall => SubSeq(input_queue', 1, Len(input_queue)) = input_queue]_vars

\* a put was refused on a full queue
C7_Witness == Len(input_queue) = buffer_size /\ lastCall.err = "Full"

\* C8: every command whose put succeeded is either pending or was handed to
\* run() by exactly one get_all, and the handed and pending commands together
\* are in the order of their puts (so in each producer's order), none missing,
\* none twice; an empty queue hands nothing.
C8_ExactlyOnceFIFO ==
    delivered \o Ids(input_queue) = [i \in 1..nPut |-> i]

\* commands were drained, and a command enqueued after the orchestrator's Stop
\* (so by the other producer, the orchestrator being blocked in stop_wait) is pending
C8_Witness ==
    /\ orch = "stop_wait"
    /\ delivered # <<>>
    /\ \E i \in PendingStops : i < Len(input_queue)

\* C9: get_all returns the Min(n, get_max_k) most recently published
\* snapshots, oldest first, n being the number of snapshots published.
C9_RingCapacity ==
    /\ RingGetAll(ring_buffer) = published
    /\ Len(RingGetAll(ring_buffer)) = Min(n_published, get_max_k)

\* more than get_max_k snapshots were published, and the retained ones differ
C9_Witness ==
    /\ n_published > get_max_k
    /\ published[1] # published[get_max_k]

\* C10: a get_state() that ends with nothing published fails with Timeout and
\* returns no snapshot; a get_state() that succeeds returns only snapshots
\* run() published; and a get_state() waiting for a first snapshot ends.
C10_ReadBeforePublish ==
    /\ [][((get_state(None) \/ get_state_wait) /\ orch' = "idle") =>
             /\ ~RingHasData(ring_buffer) =>
                    (lastCall'.err = "Timeout" /\ lastCall'.val = <<>>)
             /\ \A i \in 1..Len(lastCall'.val) : lastCall'.val[i].pub]_vars
    /\ (orch = "get_wait") ~> (orch = "idle")

\* get_state timed out after the process failed without publishing
C10_Witness ==
    /\ pc = "Failed"
    /\ n_published = 0
    /\ lastCall.err = "Timeout"

\* the position a pose value stands for, in millimetres along one axis
Position(p) == p * PoseStep

\* the translation distance between two poses, in millimetres
Distance(a, b) ==
    IF Position(a) >= Position(b) THEN Position(a) - Position(b) ELSE Position(b) - Position(a)

\* run() sends a target to the actuator (write_angles returns)
Dispatches == pc = "dispatch" /\ pc' = "read"

\* run() takes a batch from the Command Queue
Drains == pc = "drain" /\ pc' = "dispatch" /\ input_queue # <<>>

\* C12: the target dispatched on a tick is no farther from the target of the
\* tick before (the actuator's configuration, on the first tick) than
\* max_pos_speed allows in the time between the two dispatches, which is at
\* most 1/frequency plus the time the loop's work takes.
C12_SpeedLimit ==
    [][Dispatches =>
          Distance(robot_angles, target_pose) * 1000 <= max_pos_speed * (Period + MaxLate)]_vars

\* C13: once main() has seen a 'q' its loop starts no further iteration, and
\* main() leaves the with statement and returns.
C13_QuitExits ==
    /\ [][(main_stop /\ main_pc = "while" /\ main_pc' # main_pc) => main_pc' = "exit"]_vars
    /\ main_stop ~> (main_pc = "done")

\* C14: when run() takes a batch of several ServoL and ScheduleWaypoint
\* commands, the target after that tick is the pose of the command enqueued
\* last in the batch (every command applied, in arrival order).
C14_FoldInOrder ==
    [][(/\ Drains
        /\ Len(input_queue) >= 2
        /\ \A i \in 1..Len(input_queue) : input_queue[i].cmd # STOP) =>
             target_pose' = input_queue[Len(input_queue)].target_pose]_vars

\* C15: when run() takes a batch that holds a Stop, no target is dispatched
\* after it (the loop is left), and a Stop at the head of the batch leaves the
\* target as it was.
C15_StopPrecedence ==
    [][(Drains /\ \E i \in 1..Len(input_queue) : input_queue[i].cmd = STOP) =>
          /\ pc' # "dispatch"
          /\ input_queue[1].cmd = STOP => target_pose' = target_pose]_vars

\* the steps of run() that call ready_event.set(): the first loop's and finally's
SetsReadyFirstLoop == pc = "ready" /\ pc' # "ready" /\ iter_idx = 0
SetsReadyFinally == pc = "finally" /\ pc' = "exit"

\* the current loop has dispatched a target and published its snapshot
DispatchedAndPublished ==
    /\ \E i \in 1..Len(tick_steps) : tick_steps[i] = "dispatch"
    /\ \E i \in 1..Len(tick_steps) : tick_steps[i] = "publish"

\* C16 as stated: every set of the readiness event by run() is the first one
\* (the event is not yet set) and comes after the first tick dispatched a
\* target and published its snapshot; the event is never cleared.
C16_ReadyExactlyOnce_Original ==
    /\ [][(SetsReadyFirstLoop \/ SetsReadyFinally) =>
             (~ready_event /\ iter_idx = 0 /\ DispatchedAndPublished)]_vars
    /\ [][ready_event => ready_event']_vars

\* C16 (amended): the readiness event is never cleared; it goes from unset to
\* set either at the end of the first tick, after that tick dispatched a target
\* and published its snapshot, or in the cleanup of a run() that ends before
\* its first tick is complete; the first tick's set always finds it unset; and
\* it is not set while run() is before the end of its first tick.
C16_ReadyExactlyOnce ==
    /\ [][ready_event => ready_event']_vars
    /\ [][(~ready_event /\ ready_event') =>
             \/ SetsReadyFirstLoop /\ DispatchedAndPublished /\ n_published = 1
             \/ SetsReadyFinally /\ iter_idx = 0]_vars
    /\ [][SetsReadyFirstLoop => (~ready_event /\ ready_event')]_vars
    /\ [](ready_event => (iter_idx = 1 \/ pc \in {"exit"} \cup Exited))

\* both sets were performed: the first tick's, and the cleanup's after a later failure
C16_Witness ==
    /\ pc = "Failed"
    /\ iter_idx = 1
    /\ n_published >= 1
    /\ ready_event

\* C17: when the control process has exited after commanding the actuator,
\* the last command the actuator was sent is a stop.
C17_CleanupBeforeExit ==
    (pc \in Exited /\ robot_cmd # "none") => robot_cmd = "stop"

\* C18: a tick on which an actuator-transport call fails for the first time
\* leaves the control process in its loop.
C18_TransportErrorRetried ==
    [][(Running /\ error = "" /\ error' = "TransportError") => Running']_vars

\* the order of the steps of a tick
TickOrder == <<"drain", "dispatch", "read", "publish", "wait">>

\* C19: what a tick has done so far is always a prefix of: drain, dispatch,
\* read, publish, wait; and at the start of a tick a snapshot has been
\* published exactly if a tick has been completed.
C19_TickStepOrder ==
    /\ Len(tick_steps) <= Len(TickOrder)
    /\ \A i \in 1..Len(tick_steps) : i <= Len(TickOrder) => tick_steps[i] = TickOrder[i]
    /\ pc = "drain" => ((iter_idx = 0) <=> (n_published = 0))

\* C20: the wait of a tick ends on the tick boundary curr_t + n*dt, whatever
\* the time the loop's work took before it (less than dt).
C20_DriftFreeCadence ==
    [][Dispatches => late' = 0]_vars

\* run() finds the Command Queue empty
DrainsNothing == pc = "drain" /\ pc' = "dispatch" /\ input_queue = <<>>

\* C21: a tick whose drain finds nothing pending leaves the target as it was;
\* at the start of every tick the target is the one dispatched on the tick
\* before or, on the first tick, the configuration read before the loop; every
\* tick goes from its drain to the dispatch; and what is dispatched is the target.
C21_TargetHeld ==
    /\ [][DrainsNothing => target_pose' = target_pose]_vars
    /\ [](pc = "drain" => target_pose = robot_angles)
    /\ [][(pc = "drain" /\ pc' # pc) => pc' = "dispatch"]_vars
    /\ [][Dispatches => robot_angles' = target_pose]_vars

\* the one command ever put set the target to pose 2, away from the
\* configuration at launch, and the last two ticks both dispatched it: one of
\* them at most drained the command, the other found nothing pending
C21_Witness ==
    /\ pc = "ready"
    /\ nPut = 1 /\ delivered = <<1>>
    /\ Len(published) = 2
    /\ published[1].ActualTCPPose = 2 /\ published[2].ActualTCPPose = 2
    /\ target_pose = 2

C23_VerboseOnlyLogs ==
    error \in {"", "TransportError"}

====
